---------------------------- MODULE Spec2Model ----------------------------
(***************************************************************************)
(* Model of demo/cedar-pdp-server.py: an HTTP policy decision point that   *)
(* wraps the cedar command line tool.                                      *)
(*                                                                         *)
(* Python strings are sequences of one-character strings, so that split,   *)
(* strip, the substring test and the regular expression are computed       *)
(* character by character as Python computes them.                         *)
(***************************************************************************)
EXTENDS Integers, Sequences, FiniteSets

(***************************************************************************)
(* Bounds of the model.                                                    *)
(***************************************************************************)
\* Engine outputs are concatenations of at most MaxFrags fragments.
MaxFrags == 3
\* Entity references are all strings of at most MaxRefLen characters.
MaxRefLen == 5
\* Quoted ids of well-formed references have at most MaxIdLen characters.
MaxIdLen == 4
\* Engine outputs of the residual scan have at most MaxLines lines.
MaxLines == 4
\* Names available to tempfile.NamedTemporaryFile.
MaxTmpFiles == 2

(***************************************************************************)
(* Python str primitives.                                                  *)
(***************************************************************************)
UpperCase == <<"A","B","C","D","E","F","G","H","I","J","K","L","M",
               "N","O","P","Q","R","S","T","U","V","W","X","Y","Z">>
LowerCase == <<"a","b","c","d","e","f","g","h","i","j","k","l","m",
               "n","o","p","q","r","s","t","u","v","w","x","y","z">>
Digits == {"0","1","2","3","4","5","6","7","8","9"}

\* str.lower() on one character
LowerChar(c) ==
    IF \E i \in 1..Len(UpperCase) : UpperCase[i] = c
    THEN LowerCase[CHOOSE i \in 1..Len(UpperCase) : UpperCase[i] = c]
    ELSE c

\* str.lower()
Lower(s) == [i \in 1..Len(s) |-> LowerChar(s[i])]

\* the characters str.strip() removes when called without argument
Whitespace == {" ", "\t", "\r", "\n"}

\* the regular expression class [\w-]
IsWordOrHyphen(c) ==
    \/ c \in Digits
    \/ c \in {"_", "-"}
    \/ \E i \in 1..Len(LowerCase) : LowerCase[i] = c \/ UpperCase[i] = c

\* s.startswith(p)
StartsWith(s, p) == Len(s) >= Len(p) /\ SubSeq(s, 1, Len(p)) = p

\* s.endswith(p)
EndsWith(s, p) == Len(s) >= Len(p) /\ SubSeq(s, Len(s) - Len(p) + 1, Len(s)) = p

\* s.find(sub, i): the least index >= i where sub occurs in s, 0 when none
Find(s, sub, i) ==
    LET M == {j \in i..(Len(s) - Len(sub) + 1) : SubSeq(s, j, j + Len(sub) - 1) = sub}
    IN  IF M = {} THEN 0 ELSE CHOOSE j \in M : \A k \in M : j <= k

\* sub in s
Contains(s, sub) == Find(s, sub, 1) # 0

\* s.split(sep), scanning from index i: leftmost, non-overlapping separators
RECURSIVE SplitFrom(_, _, _)
SplitFrom(s, sep, i) ==
    LET j == Find(s, sep, i)
    IN  IF j = 0
        THEN <<SubSeq(s, i, Len(s))>>
        ELSE <<SubSeq(s, i, j - 1)>> \o SplitFrom(s, sep, j + Len(sep))

Split(s, sep) == SplitFrom(s, sep, 1)

\* sep.join(parts)
RECURSIVE Join(_, _)
Join(parts, sep) ==
    IF parts = <<>> THEN <<>>
    ELSE IF Len(parts) = 1 THEN parts[1]
    ELSE parts[1] \o sep \o Join(Tail(parts), sep)

\* s.strip(chars): every leading and trailing character of the set removed
Strip(s, chars) ==
    LET keep == {i \in 1..Len(s) : s[i] \notin chars}
    IN  IF keep = {} THEN <<>>
        ELSE SubSeq(s, CHOOSE i \in keep : \A k \in keep : i <= k,
                       CHOOSE i \in keep : \A k \in keep : i >= k)

\* string literals of the source
ColonColon == <<":", ":">>
Quote == "\""
Newline == <<"\n">>
ALLOW == <<"A","L","L","O","W">>
PolicyPrefix == <<"p","o","l","i","c","y","-">>
IdMarker == <<"@","i","d","(">>
Dashes == <<"-","-","-">>
Semicolon == <<";">>

(***************************************************************************)
(* parse_entity_id, the function nested in _handle_query_constraints.      *)
(***************************************************************************)
\* a plausible slip: the segment threshold off by one
parse_entity_id_two_segments(full_id) ==
    LET parts == Split(full_id, ColonColon)
    IN  IF Len(parts) >= 2
        THEN <<Join(SubSeq(parts, 1, Len(parts) - 1), ColonColon),
               Strip(parts[Len(parts)], {Quote})>>
        ELSE <<full_id, <<>>>>

parse_entity_id(full_id) ==
    LET parts == Split(full_id, ColonColon)
    IN  IF Len(parts) >= 3
        THEN <<Join(SubSeq(parts, 1, Len(parts) - 1), ColonColon),
               Strip(parts[Len(parts)], {Quote})>>
        ELSE <<full_id, <<>>>>

(***************************************************************************)
(* Parsing of the output of `cedar authorize` in _handle_authorize.        *)
(***************************************************************************)
\* a plausible slip: the substring test made case-insensitive
parse_decision_any_case(stdout) ==
    IF Contains(Lower(stdout), Lower(ALLOW)) THEN "Allow" ELSE "Deny"

\* decision = "Allow" if "ALLOW" in result.stdout else "Deny"
parse_decision(stdout) ==
    IF Contains(stdout, ALLOW) THEN "Allow" ELSE "Deny"

\* the end of the longest run of [\w-] characters that starts at index i
RECURSIVE RunEnd(_, _)
RunEnd(line, i) ==
    IF i < Len(line) /\ IsWordOrHyphen(line[i + 1]) THEN RunEnd(line, i + 1) ELSE i

\* re.findall(r'policy-[\w-]+', line, re.IGNORECASE), scanning from index i
RECURSIVE FindAllFrom(_, _)
FindAllFrom(line, i) ==
    IF i + Len(PolicyPrefix) > Len(line) THEN <<>>
    ELSE IF /\ Lower(SubSeq(line, i, i + Len(PolicyPrefix) - 1)) = PolicyPrefix
            /\ IsWordOrHyphen(line[i + Len(PolicyPrefix)])
         THEN LET e == RunEnd(line, i + Len(PolicyPrefix))
              IN  <<SubSeq(line, i, e)>> \o FindAllFrom(line, e + 1)
         ELSE FindAllFrom(line, i + 1)

FindAll(line) == FindAllFrom(line, 1)

\* the loop over result.stdout.split('\n') that extends policy_ids
RECURSIVE CollectPolicyIds(_)
CollectPolicyIds(lines) ==
    IF lines = <<>> THEN <<>>
    ELSE (IF Contains(Lower(lines[1]), PolicyPrefix) THEN FindAll(lines[1]) ELSE <<>>)
         \o CollectPolicyIds(Tail(lines))

\* a plausible slip: duplicates removed keeping the last occurrence
RECURSIVE dedup_keep_last(_)
dedup_keep_last(ids) ==
    IF ids = <<>> THEN <<>>
    ELSE IF \E k \in 2..Len(ids) : ids[k] = ids[1]
         THEN dedup_keep_last(Tail(ids))
         ELSE <<ids[1]>> \o dedup_keep_last(Tail(ids))

\* list(dict.fromkeys(policy_ids)): the first occurrence of each key is kept
RECURSIVE DedupFrom(_, _)
DedupFrom(ids, seen) ==
    IF ids = <<>> THEN <<>>
    ELSE IF ids[1] \in seen
         THEN DedupFrom(Tail(ids), seen)
         ELSE <<ids[1]>> \o DedupFrom(Tail(ids), seen \cup {ids[1]})

dict_fromkeys(ids) == DedupFrom(ids, {})

extract_policy_ids(stdout) == dict_fromkeys(CollectPolicyIds(Split(stdout, Newline)))

(***************************************************************************)
(* The residual scan of _handle_query_constraints, one line at a time.     *)
(* A scan state is [residuals, current_residual, in_residual].             *)
(***************************************************************************)
ScanStart == [residuals |-> <<>>, current_residual |-> <<>>, in_residual |-> FALSE]

\* '\n'.join(current_residual) appended to residuals
Flushed(st) == Append(st.residuals, Join(st.current_residual, Newline))

\* a plausible slip: a marker met inside a block is taken for a line of it
ResidualStep_marker_appended(st, line) ==
    LET stripped == Strip(line, Whitespace)
    IN  IF StartsWith(stripped, IdMarker) /\ ~st.in_residual
        THEN [residuals |-> st.residuals,
              current_residual |-> <<line>>,
              in_residual |-> TRUE]
        ELSE IF st.in_residual
        THEN IF stripped # <<>> /\ ~StartsWith(stripped, Dashes)
             THEN [st EXCEPT !.current_residual = Append(@, line)]
             ELSE IF StartsWith(stripped, Dashes) \/ stripped = <<>>
             THEN IF /\ st.current_residual # <<>>
                     /\ EndsWith(Strip(st.current_residual[Len(st.current_residual)],
                                       Whitespace), Semicolon)
                  THEN [residuals |-> Flushed(st),
                        current_residual |-> <<>>,
                        in_residual |-> FALSE]
                  ELSE st
             ELSE st
        ELSE st

\* a plausible slip: a blank or separator line ends the block whatever the
\* last accumulated line ends with
ResidualStep_flush_on_blank(st, line) ==
    LET stripped == Strip(line, Whitespace)
    IN  IF StartsWith(stripped, IdMarker)
        THEN [residuals |-> IF st.current_residual # <<>> THEN Flushed(st)
                            ELSE st.residuals,
              current_residual |-> <<line>>,
              in_residual |-> TRUE]
        ELSE IF st.in_residual
        THEN IF stripped # <<>> /\ ~StartsWith(stripped, Dashes)
             THEN [st EXCEPT !.current_residual = Append(@, line)]
             ELSE [residuals |-> Flushed(st),
                   current_residual |-> <<>>,
                   in_residual |-> FALSE]
        ELSE st

\* a plausible slip: a marker flushes the open block only when it is terminated
ResidualStep_marker_flush_terminated(st, line) ==
    LET stripped == Strip(line, Whitespace)
    IN  IF StartsWith(stripped, IdMarker)
        THEN [residuals |-> IF /\ st.current_residual # <<>>
                               /\ EndsWith(Strip(st.current_residual[Len(st.current_residual)],
                                                 Whitespace), Semicolon)
                            THEN Flushed(st)
                            ELSE st.residuals,
              current_residual |-> <<line>>,
              in_residual |-> TRUE]
        ELSE IF st.in_residual
        THEN IF stripped # <<>> /\ ~StartsWith(stripped, Dashes)
             THEN [st EXCEPT !.current_residual = Append(@, line)]
             ELSE IF StartsWith(stripped, Dashes) \/ stripped = <<>>
             THEN IF /\ st.current_residual # <<>>
                     /\ EndsWith(Strip(st.current_residual[Len(st.current_residual)],
                                       Whitespace), Semicolon)
                  THEN [residuals |-> Flushed(st),
                        current_residual |-> <<>>,
                        in_residual |-> FALSE]
                  ELSE st
             ELSE st
        ELSE st

\* a plausible slip: the stripped line is accumulated, not the line as read
ResidualStep_lines_stripped(st, line) ==
    LET stripped == Strip(line, Whitespace)
    IN  IF StartsWith(stripped, IdMarker)
        THEN [residuals |-> IF st.current_residual # <<>> THEN Flushed(st)
                            ELSE st.residuals,
              current_residual |-> <<line>>,
              in_residual |-> TRUE]
        ELSE IF st.in_residual
        THEN IF stripped # <<>> /\ ~StartsWith(stripped, Dashes)
             THEN [st EXCEPT !.current_residual = Append(@, stripped)]
             ELSE IF StartsWith(stripped, Dashes) \/ stripped = <<>>
             THEN IF /\ st.current_residual # <<>>
                     /\ EndsWith(Strip(st.current_residual[Len(st.current_residual)],
                                       Whitespace), Semicolon)
                  THEN [residuals |-> Flushed(st),
                        current_residual |-> <<>>,
                        in_residual |-> FALSE]
                  ELSE st
             ELSE st
        ELSE st

\* a plausible slip: the flag is left set when a terminated block is flushed
ResidualStep_flag_kept(st, line) ==
    LET stripped == Strip(line, Whitespace)
    IN  IF StartsWith(stripped, IdMarker)
        THEN [residuals |-> IF st.current_residual # <<>> THEN Flushed(st)
                            ELSE st.residuals,
              current_residual |-> <<line>>,
              in_residual |-> TRUE]
        ELSE IF st.in_residual
        THEN IF stripped # <<>> /\ ~StartsWith(stripped, Dashes)
             THEN [st EXCEPT !.current_residual = Append(@, line)]
             ELSE IF StartsWith(stripped, Dashes) \/ stripped = <<>>
             THEN IF /\ st.current_residual # <<>>
                     /\ EndsWith(Strip(st.current_residual[Len(st.current_residual)],
                                       Whitespace), Semicolon)
                  THEN [residuals |-> Flushed(st),
                        current_residual |-> <<>>,
                        in_residual |-> TRUE]
                  ELSE st
             ELSE st
        ELSE st

\* the body of `for line in result.stdout.split('\n')`
ResidualStep(st, line) ==
    LET stripped == Strip(line, Whitespace)
    IN  IF StartsWith(stripped, IdMarker)
        THEN [residuals |-> IF st.current_residual # <<>> THEN Flushed(st)
                            ELSE st.residuals,
              current_residual |-> <<line>>,
              in_residual |-> TRUE]
        ELSE IF st.in_residual
        THEN IF stripped # <<>> /\ ~StartsWith(stripped, Dashes)
             THEN [st EXCEPT !.current_residual = Append(@, line)]
             ELSE IF StartsWith(stripped, Dashes) \/ stripped = <<>>
             THEN IF /\ st.current_residual # <<>>
                     /\ EndsWith(Strip(st.current_residual[Len(st.current_residual)],
                                       Whitespace), Semicolon)
                  THEN [residuals |-> Flushed(st),
                        current_residual |-> <<>>,
                        in_residual |-> FALSE]
                  ELSE st
             ELSE st
        ELSE st

\* a plausible slip: the block open at the end of the output is dropped
residuals_at_end_dropped(st) == st.residuals

\* `if current_residual: residuals.append(...)` after the loop
residuals_at_end(st) ==
    IF st.current_residual # <<>> THEN Flushed(st) ELSE st.residuals

RECURSIVE ScanFrom(_, _)
ScanFrom(st, lines) ==
    IF lines = <<>> THEN st ELSE ScanFrom(ResidualStep(st, lines[1]), Tail(lines))

\* the residual list the handler puts in its response
extract_residuals(stdout) == residuals_at_end(ScanFrom(ScanStart, Split(stdout, Newline)))

(***************************************************************************)
(* Requests, and what the environment does to one request.                 *)
(***************************************************************************)
\* a JSON member: absent, a string, or a value of another JSON type
Absent == [kind |-> "absent", val |-> <<>>]
Str(s) == [kind |-> "string", val |-> s]
Other(s) == [kind |-> "other", val |-> s]
\* the {} of authz_request.get("context", {})
EmptyObject == Other(<<>>)

IsString(v) == v.kind = "string"

\* request bodies: bytes that are not UTF-8, text that is not JSON, JSON that
\* is not an object, and JSON objects
Body(kind, principal, action, resource, context) ==
    [kind |-> kind, principal |-> principal, action |-> action,
     resource |-> resource, context |-> context]
NoBody == Body("none", Absent, Absent, Absent, Absent)
Object(principal, action, resource, context) ==
    Body("object", principal, action, resource, context)

NoRequest == [method |-> "NONE", path |-> "", body |-> NoBody]

\* what the environment does while one request is handled: the temporary file
\* (created and written, not created, created and not written), the engine
\* (not found, or run to an exit status and an output) and the client socket
Env(payload, engine, exit, stdout, wfile) ==
    [payload |-> payload, engine |-> engine, exit |-> exit,
     stdout |-> stdout, wfile |-> wfile]

VARIABLES
    server,            \* "starting", "serving" or "exited": main()
    pc,                \* "idle", "received" (a request is read), "responded"
    request,           \* the request being handled
    engine_calls,      \* the subprocess.run calls made for it, with their results
    responses,         \* the responses written for it, in order
    tmp_files,         \* names of the request files that exist on disk
    cedar_installed,   \* whether the cedar executable can be run
    version_ok,        \* whether `cedar --version` ends with exit status 0
    scan_lines,        \* result.stdout.split('\n') of the residual scan
    scan_pos,          \* index of the next line of the scan
    residuals,         \* the scan's result list
    current_residual,  \* the scan's accumulator
    in_residual,       \* the scan's flag
    scan_pc            \* "off", "loop" or "done"

scan_vars == <<scan_lines, scan_pos, residuals, current_residual, in_residual, scan_pc>>
vars == <<server, pc, request, engine_calls, responses, tmp_files, cedar_installed,
          version_ok,
          scan_lines, scan_pos, residuals, current_residual, in_residual, scan_pc>>

(***************************************************************************)
(* The handlers. Each returns what it leaves behind: the engine calls, the *)
(* responses written, the files on disk and whether an exception left it.  *)
(***************************************************************************)
Outcome(calls, resps, files, raised) ==
    [engine_calls |-> calls, responses |-> resps, tmp_files |-> files, raised |-> raised]

Response(status, body) == [status |-> status, body |-> body]
\* send_error(code, message)
ErrorResponse(status) == Response(status, [kind |-> "error"])
\* send_response(200) and the headers went out, wfile.write(body) raised
HeadersOnly == Response(200, [kind |-> "none"])

TmpNames == 1..MaxTmpFiles

\* a plausible slip: a missing engine read as an engine that printed nothing
subprocess_run_missing_as_empty(argv, env) ==
    IF env.engine = "missing"
    THEN [argv |-> argv, outcome |-> "ran", exit |-> 1, stdout |-> <<>>]
    ELSE [argv |-> argv, outcome |-> "ran", exit |-> env.exit, stdout |-> env.stdout]

\* subprocess.run(argv, capture_output=True, text=True): FileNotFoundError when
\* the executable is missing; no check=True, so every exit status returns
subprocess_run(argv, env) ==
    IF env.engine = "missing"
    THEN [argv |-> argv, outcome |-> "missing", exit |-> 0, stdout |-> <<>>]
    ELSE [argv |-> argv, outcome |-> "ran", exit |-> env.exit, stdout |-> env.stdout]

RequiredPresent(b) ==
    /\ b.kind = "object"
    /\ b.principal.kind # "absent"
    /\ b.action.kind # "absent"
    /\ b.resource.kind # "absent"

AuthorizeBody(stdout) ==
    [kind |-> "authorize", decision |-> parse_decision(stdout),
     reason |-> extract_policy_ids(stdout), errors |-> <<>>]

handle_authorize(b, env, files) ==
    IF ~RequiredPresent(b)
    THEN Outcome(<<>>, <<>>, files, TRUE)
    ELSE IF env.payload = "create_fails"
    THEN Outcome(<<>>, <<>>, files, TRUE)
    ELSE
    LET cedar_request == [principal |-> b.principal, action |-> b.action,
                          resource |-> b.resource,
                          context |-> IF b.context.kind = "absent" THEN EmptyObject
                                      ELSE b.context]
        request_file == CHOOSE n \in TmpNames \ files : \A m \in TmpNames \ files : n <= m
        created == files \cup {request_file}
    IN  IF env.payload = "write_fails"
        \* json.dump raised inside the with block: the try/finally is not entered
        THEN Outcome(<<>>, <<>>, created, TRUE)
        ELSE
        LET result == subprocess_run([cmd |-> "authorize", request_json |-> cedar_request],
                                     env)
            unlinked == created \ {request_file}
        IN  IF result.outcome = "missing"
            THEN Outcome(<<result>>, <<>>, unlinked, TRUE)
            ELSE IF env.wfile = "fails"
            THEN Outcome(<<result>>, <<HeadersOnly>>, unlinked, TRUE)
            ELSE IF ~IsString(b.resource) \/ ~IsString(b.action)
            \* the log line calls .split on them after the response is written
            THEN Outcome(<<result>>, <<Response(200, AuthorizeBody(result.stdout))>>,
                         unlinked, TRUE)
            ELSE Outcome(<<result>>, <<Response(200, AuthorizeBody(result.stdout))>>,
                         unlinked, FALSE)

\* a plausible slip: the context handed to the engine like the other members
tpe_argv_with_context(b) ==
    LET p == parse_entity_id(b.principal.val)
        r == parse_entity_id(b.resource.val)
    IN  [cmd |-> "tpe", principal_type |-> p[1], principal_eid |-> p[2],
         action |-> b.action.val, resource_type |-> r[1], resource_eid |-> r[2],
         context |-> b.context]

\* the argument list of `cedar tpe`
tpe_argv(b) ==
    LET p == parse_entity_id(b.principal.val)
        r == parse_entity_id(b.resource.val)
    IN  [cmd |-> "tpe", principal_type |-> p[1], principal_eid |-> p[2],
         action |-> b.action.val, resource_type |-> r[1], resource_eid |-> r[2]]

\* a plausible slip: the decision read off the output as /authorize does
query_body_parsed_decision(stdout) ==
    [kind |-> "query", decision |-> parse_decision(stdout),
     residuals |-> extract_residuals(stdout)]

QueryBody(stdout) ==
    [kind |-> "query", decision |-> "UNKNOWN", residuals |-> extract_residuals(stdout)]

handle_query_constraints(b, env, files) ==
    IF ~RequiredPresent(b)
    THEN Outcome(<<>>, <<>>, files, TRUE)
    \* parse_entity_id calls .split on them; subprocess.run rejects a non-string
    ELSE IF ~IsString(b.principal) \/ ~IsString(b.resource) \/ ~IsString(b.action)
    THEN Outcome(<<>>, <<>>, files, TRUE)
    ELSE
    LET result == subprocess_run(tpe_argv(b), env)
    IN  IF result.outcome = "missing"
        THEN Outcome(<<result>>, <<>>, files, TRUE)
        ELSE IF env.wfile = "fails"
        THEN Outcome(<<result>>, <<HeadersOnly>>, files, TRUE)
        ELSE Outcome(<<result>>, <<Response(200, QueryBody(result.stdout))>>, files, FALSE)

\* do_POST: the body is read and decoded before the try block
post(req, env, files) ==
    IF req.body.kind = "undecodable"
    THEN Outcome(<<>>, <<>>, files, TRUE)
    ELSE IF req.body.kind = "malformed"
    THEN Outcome(<<>>, <<ErrorResponse(500)>>, files, FALSE)
    ELSE IF req.path \notin {"/authorize", "/query-constraints"}
    THEN Outcome(<<>>, <<ErrorResponse(404)>>, files, FALSE)
    ELSE
    LET o == IF req.path = "/authorize"
             THEN handle_authorize(req.body, env, files)
             ELSE handle_query_constraints(req.body, env, files)
    IN  IF o.raised
        THEN Outcome(o.engine_calls, Append(o.responses, ErrorResponse(500)),
                     o.tmp_files, FALSE)
        ELSE o

(***************************************************************************)
(* Actions.                                                                *)
(***************************************************************************)
Init ==
    /\ server = "starting"
    /\ pc = "idle"
    /\ request = NoRequest
    /\ engine_calls = <<>>
    /\ responses = <<>>
    /\ tmp_files = {}
    /\ cedar_installed \in BOOLEAN
    /\ version_ok \in BOOLEAN
    /\ scan_lines = <<>>
    /\ scan_pos = 1
    /\ residuals = <<>>
    /\ current_residual = <<>>
    /\ in_residual = FALSE
    /\ scan_pc = "off"

\* a plausible slip: the server is started without the `cedar --version` check
main_unchecked ==
    /\ server = "starting"
    /\ \E files_ok \in BOOLEAN :
          server' = IF files_ok THEN "serving" ELSE "exited"
    /\ UNCHANGED <<pc, request, engine_calls, responses, tmp_files, cedar_installed, version_ok>>
    /\ UNCHANGED scan_vars

\* main(): exit(1) unless `cedar --version` succeeds (FileNotFoundError when the
\* executable is missing, CalledProcessError when it exits non-zero) and the
\* policy files exist
main ==
    /\ server = "starting"
    /\ \E files_ok \in BOOLEAN :
          server' = IF cedar_installed /\ version_ok /\ files_ok THEN "serving"
                    ELSE "exited"
    /\ UNCHANGED <<pc, request, engine_calls, responses, tmp_files, cedar_installed, version_ok>>
    /\ UNCHANGED scan_vars

\* the executable is removed from, or put back on, the PATH between requests
EngineChange ==
    /\ server = "serving"
    /\ pc = "idle"
    /\ cedar_installed' = ~cedar_installed
    /\ UNCHANGED <<server, pc, request, engine_calls, responses, tmp_files, version_ok>>
    /\ UNCHANGED scan_vars

\* the environment of a request, with the engine as it is now
InWorld(env) == [env EXCEPT !.engine = IF cedar_installed THEN "ran" ELSE "missing"]

\* serve_forever() accepts a connection and reads a request from Reqs
Receive(Reqs) ==
    /\ server = "serving"
    /\ pc = "idle"
    /\ Cardinality(tmp_files) < MaxTmpFiles
    /\ \E r \in Reqs : request' = r
    /\ pc' = "received"
    /\ UNCHANGED <<server, engine_calls, responses, tmp_files, cedar_installed, version_ok>>
    /\ UNCHANGED scan_vars

\* do_POST, to its end, in an environment of Envs
do_POST(Envs) ==
    /\ pc = "received"
    /\ request.method = "POST"
    /\ \E env \in Envs :
          LET o == post(request, InWorld(env), tmp_files)
          IN  /\ engine_calls' = o.engine_calls
              /\ responses' = o.responses
              /\ tmp_files' = o.tmp_files
    /\ pc' = "responded"
    /\ UNCHANGED <<server, request, cedar_installed, version_ok>>
    /\ UNCHANGED scan_vars

\* a plausible slip: a health check that probes the engine
do_GET_engine_probed ==
    /\ pc = "received"
    /\ request.method = "GET"
    /\ LET result == subprocess_run([cmd |-> "version"], InWorld(Env("ok", "ran", 0, <<>>, "ok")))
       IN  /\ engine_calls' = <<result>>
           /\ responses' = IF request.path # "/health" THEN <<ErrorResponse(404)>>
                            ELSE IF result.outcome = "missing" THEN <<ErrorResponse(500)>>
                            ELSE <<Response(200, [kind |-> "health", status |-> "ok"])>>
    /\ pc' = "responded"
    /\ UNCHANGED <<server, request, tmp_files, cedar_installed, version_ok>>
    /\ UNCHANGED scan_vars

\* do_GET, to its end
do_GET ==
    /\ pc = "received"
    /\ request.method = "GET"
    /\ responses' = IF request.path = "/health"
                    THEN <<Response(200, [kind |-> "health", status |-> "ok"])>>
                    ELSE <<ErrorResponse(404)>>
    /\ pc' = "responded"
    /\ UNCHANGED <<server, request, engine_calls, tmp_files, cedar_installed, version_ok>>
    /\ UNCHANGED scan_vars

\* the connection is closed; nothing of the request is kept
Close ==
    /\ pc = "responded"
    /\ pc' = "idle"
    /\ request' = NoRequest
    /\ engine_calls' = <<>>
    /\ responses' = <<>>
    /\ UNCHANGED <<server, tmp_files, cedar_installed, version_ok>>
    /\ UNCHANGED scan_vars

\* one iteration of the residual loop
ScanLine ==
    /\ scan_pc = "loop"
    /\ scan_pos <= Len(scan_lines)
    /\ LET st == ResidualStep([residuals |-> residuals,
                               current_residual |-> current_residual,
                               in_residual |-> in_residual], scan_lines[scan_pos])
       IN  /\ residuals' = st.residuals
           /\ current_residual' = st.current_residual
           /\ in_residual' = st.in_residual
    /\ scan_pos' = scan_pos + 1
    /\ UNCHANGED <<scan_lines, scan_pc>>
    /\ UNCHANGED <<server, pc, request, engine_calls, responses, tmp_files, cedar_installed, version_ok>>

\* the end of the input: the statements after the loop
ScanEnd ==
    /\ scan_pc = "loop"
    /\ scan_pos > Len(scan_lines)
    /\ residuals' = residuals_at_end([residuals |-> residuals,
                                      current_residual |-> current_residual,
                                      in_residual |-> in_residual])
    /\ scan_pc' = "done"
    /\ UNCHANGED <<scan_lines, scan_pos, current_residual, in_residual>>
    /\ UNCHANGED <<server, pc, request, engine_calls, responses, tmp_files, cedar_installed, version_ok>>

(***************************************************************************)
(* Inputs.                                                                 *)
(***************************************************************************)
\* all sequences of at most n elements of S
SeqsUpTo(S, n) == UNION {[1..k -> S] : k \in 0..n}

\* the concatenation of a sequence of strings
RECURSIVE Flatten(_)
Flatten(ss) == IF ss = <<>> THEN <<>> ELSE ss[1] \o Flatten(Tail(ss))

\* entity references of the requests
RefAgent == <<"O", ":", ":", "A", ":", ":", Quote, "m", Quote>>
RefBare == <<"m">>
ActionRef == <<"O", ":", ":", "X", ":", ":", Quote, "w", Quote>>

\* engine outputs of the gateway's requests: nothing, a verdict, and two
\* residuals with the words ALLOW and DENY in them
OutAllow == ALLOW \o Newline \o PolicyPrefix \o <<"1">>
OutResiduals ==
    IdMarker \o <<"a", ")", "\n">> \o ALLOW \o <<";", "\n", "\n">>
    \o IdMarker \o <<"b", ")", "\n", "D", "E", "N", "Y">>
GatewayOutputs == {<<>>, OutAllow, OutResiduals}

ExitStatuses == {0, 1}

Members == {Absent, Other(<<"1">>), Str(RefAgent), Str(RefBare)}
Actions == {Absent, Other(<<"1">>), Str(ActionRef)}
Contexts == {Absent, Other(<<"c", "1">>), Other(<<"c", "2">>)}

Bodies ==
    {Body(k, Absent, Absent, Absent, Absent) : k \in {"undecodable", "malformed", "nonobject"}}
    \cup {Object(p, a, r, c) : p \in Members, a \in Actions, r \in Members, c \in Contexts}

Requests ==
    {[method |-> "POST", path |-> p, body |-> b] :
        p \in {"/authorize", "/query-constraints", "/other"}, b \in Bodies}
    \cup {[method |-> "GET", path |-> p, body |-> NoBody] : p \in {"/health", "/other"}}

Envs ==
    {Env(pl, "ran", x, out, w) :
        pl \in {"ok", "create_fails", "write_fails"}, x \in ExitStatuses,
        out \in GatewayOutputs, w \in {"ok", "fails"}}

(***************************************************************************)
(* The gateway: every request, every environment.                          *)
(***************************************************************************)
Next ==
    \/ main
    \/ EngineChange
    \/ Receive(Requests)
    \/ do_POST(Envs)
    \/ do_GET
    \/ Close

Spec == Init /\ [][Next]_vars

(***************************************************************************)
(* /authorize over engine outputs: one well-formed request, an engine that *)
(* runs, and every output made of at most MaxFrags fragments.              *)
(***************************************************************************)
\* fragments around the verdict word: the word, its halves, other cases
DecisionFrags ==
    {ALLOW, <<"A", "L">>, <<"L", "O", "W">>, <<"a", "l", "l", "o", "w">>,
     <<"D", "E", "N", "Y">>, <<" ">>}

\* fragments around policy ids: ids followed by a blank or a line break, one
\* in another case, the bare prefix, a word
PolicyFrags ==
    {PolicyPrefix \o <<"1", " ">>, PolicyPrefix \o <<"2", "\n">>,
     <<"P", "o", "l", "i", "c", "y", "-", "1", " ">>, PolicyPrefix,
     <<"-", "x">>, <<" ">>}

AuthorizeOutputs ==
    {Flatten(fs) : fs \in SeqsUpTo(DecisionFrags, MaxFrags) \cup SeqsUpTo(PolicyFrags, MaxFrags)}

AuthorizeRequests ==
    {[method |-> "POST", path |-> "/authorize",
      body |-> Object(Str(RefAgent), Str(ActionRef), Str(RefAgent), Other(<<"c", "1">>))]}

AuthorizeEnvs == {Env("ok", "ran", x, out, "ok") : x \in ExitStatuses, out \in AuthorizeOutputs}

NextAuthorize ==
    \/ main
    \/ Receive(AuthorizeRequests)
    \/ do_POST(AuthorizeEnvs)
    \/ Close

SpecAuthorize == Init /\ [][NextAuthorize]_vars

\* the request has been handled by _handle_authorize with an engine that ran
AuthorizeRan ==
    /\ pc = "responded"
    /\ request.method = "POST"
    /\ request.path = "/authorize"
    /\ engine_calls # <<>>
    /\ engine_calls[1].outcome = "ran"

\* the output of the engine run of the request
Stdout == engine_calls[1].stdout

\* the five characters A, L, L, O, W stand at index i of s
AllowAt(s, i) ==
    /\ i + 4 <= Len(s)
    /\ s[i] = "A" /\ s[i + 1] = "L" /\ s[i + 2] = "L" /\ s[i + 3] = "O" /\ s[i + 4] = "W"

\* C1: for every engine output, the /authorize response is a 200 whose decision
\* is "Allow" exactly when the output contains the upper-case word ALLOW, and
\* "Deny" for every other output; it is never an error response.
C1_DecisionIffAllow ==
    AuthorizeRan =>
       (/\ Len(responses) = 1
        /\ responses[1].status = 200
        /\ responses[1].body.kind = "authorize"
        /\ responses[1].body.decision \in {"Allow", "Deny"}
        /\ (responses[1].body.decision = "Allow"
              <=> \E i \in 1..Len(Stdout) : AllowAt(Stdout, i)))

\* C1 witness: an output with the lower-case word and no upper-case one is denied
C1_Witness ==
    /\ AuthorizeRan
    /\ Stdout = <<"a", "l", "l", "o", "w", "A", "L">>
    /\ responses[1].body.decision = "Deny"

(***************************************************************************)
(* The policy ids of an output, said without the scan: a maximal run of    *)
(* word and hyphen characters holds at most one id, which starts at the    *)
(* first place of the run where the prefix stands, in any case, with one   *)
(* more character after it, and ends where the run ends.                   *)
(***************************************************************************)
PrefixAt(s, k) ==
    /\ k + Len(PolicyPrefix) <= Len(s)
    /\ \A j \in 1..Len(PolicyPrefix) : LowerChar(s[k + j - 1]) = PolicyPrefix[j]
    /\ IsWordOrHyphen(s[k + Len(PolicyPrefix)])

SameRun(s, a, b) == \A j \in a..b : IsWordOrHyphen(s[j])

IdStarts(s) ==
    {k \in 1..Len(s) : PrefixAt(s, k) /\ ~\E h \in 1..(k - 1) : PrefixAt(s, h) /\ SameRun(s, h, k)}

IdAt(s, k) ==
    SubSeq(s, k, CHOOSE e \in k..Len(s) :
                    SameRun(s, k, e) /\ (e = Len(s) \/ ~IsWordOrHyphen(s[e + 1])))

FirstStart(s, id) == CHOOSE k \in IdStarts(s) : IdAt(s, k) = id /\
                        \A h \in IdStarts(s) : IdAt(s, h) = id => k <= h

\* C4: diagnostics.reason holds exactly the policy ids of the output, none
\* twice, ordered by the place of their first occurrence in the output.
C4_PolicyIdsFirstOccurrence ==
    (AuthorizeRan /\ Len(responses) = 1 /\ responses[1].body.kind = "authorize") =>
        LET reason == responses[1].body.reason
        IN  /\ \A k \in IdStarts(Stdout) : \E i \in 1..Len(reason) : reason[i] = IdAt(Stdout, k)
            /\ \A i \in 1..Len(reason) : \E k \in IdStarts(Stdout) : reason[i] = IdAt(Stdout, k)
            /\ \A i, j \in 1..Len(reason) : (i < j) =>
                  (/\ reason[i] # reason[j]
                   /\ FirstStart(Stdout, reason[i]) < FirstStart(Stdout, reason[j]))

\* C4 witness: policy-1, policy-2 on one line, policy-1 again on the next
C4_Witness ==
    /\ AuthorizeRan
    /\ Stdout = PolicyPrefix \o <<"1", " ">> \o PolicyPrefix \o <<"2", "\n">>
                \o PolicyPrefix \o <<"1", " ">>
    /\ responses[1].body.reason = <<PolicyPrefix \o <<"1">>, PolicyPrefix \o <<"2">>>>

(***************************************************************************)
(* The residual scan over engine outputs of at most MaxLines lines.        *)
(***************************************************************************)
\* lines of an engine output: markers (plain, indented, ended by `;`), policy
\* text with and without the terminator, a separator, blank lines
SampleLines ==
    {IdMarker \o <<"a", ")">>,
     <<" ">> \o IdMarker \o <<"b", ")">>,
     IdMarker \o <<"c", ")", ";">>,
     <<"x">>,
     <<"y", ";">>,
     <<"z", ";", " ">>,
     Dashes \o <<"-">>,
     <<" ">>,
     <<>>}

ResidualOutputs == {Join(ls, Newline) : ls \in SeqsUpTo(SampleLines, MaxLines)}

InitResidual ==
    /\ server = "starting"
    /\ pc = "idle"
    /\ request = NoRequest
    /\ engine_calls = <<>>
    /\ responses = <<>>
    /\ tmp_files = {}
    /\ cedar_installed = TRUE
    /\ version_ok = TRUE
    /\ \E out \in ResidualOutputs : scan_lines = Split(out, Newline)
    /\ scan_pos = 1
    /\ residuals = ScanStart.residuals
    /\ current_residual = ScanStart.current_residual
    /\ in_residual = ScanStart.in_residual
    /\ scan_pc = "loop"

NextResidual == ScanLine \/ ScanEnd

SpecResidual == InitResidual /\ [][NextResidual]_vars

\* C3: when the output ends with a non-empty accumulator, whatever its last
\* line ends with, the accumulated block is the last residual of the result.
C3_LastBlockFlushed ==
    (scan_pc = "done" /\ current_residual # <<>>) =>
        /\ residuals # <<>>
        /\ residuals[Len(residuals)] = Join(current_residual, Newline)

\* C3 witness: the output stops in a second block whose last line has no `;`
C3_Witness ==
    /\ scan_pc = "done"
    /\ Len(residuals) = 2
    /\ current_residual = <<IdMarker \o <<"a", ")">>, <<"x">>>>
    /\ scan_lines[Len(scan_lines)] = <<"x">>

(***************************************************************************)
(* /query-constraints over entity references: every string of at most      *)
(* MaxRefLen characters and every well-formed reference, as the principal  *)
(* or as the resource.                                                     *)
(***************************************************************************)
RefChars == {"a", ":", Quote}
IdChars == {"x", ":"}
Names == {<<"N">>, <<"N", "s">>}

\* Namespace::Type::"id"
WellFormed(A, B, c) == A \o ColonColon \o B \o ColonColon \o <<Quote>> \o c \o <<Quote>>

\* last segments with quote characters at their ends and inside
QuotedChars == {"x", Quote}

EntityStrings ==
    SeqsUpTo(RefChars, MaxRefLen)
    \cup {WellFormed(A, B, c) : A \in Names, B \in Names, c \in SeqsUpTo(IdChars, MaxIdLen)}
    \cup {<<"N">> \o ColonColon \o <<"N">> \o ColonColon \o q :
             q \in SeqsUpTo(QuotedChars, MaxIdLen)}

EntityRequests ==
    {[method |-> "POST", path |-> "/query-constraints",
      body |-> Object(Str(e), Str(ActionRef), Str(RefAgent), Absent)] : e \in EntityStrings}
    \cup {[method |-> "POST", path |-> "/query-constraints",
           body |-> Object(Str(RefBare), Str(ActionRef), Str(e), Absent)] : e \in EntityStrings}

EntityEnvs == {Env("ok", "ran", x, <<>>, "ok") : x \in ExitStatuses}

NextEntity ==
    \/ main
    \/ Receive(EntityRequests)
    \/ do_POST(EntityEnvs)
    \/ Close

SpecEntity == Init /\ [][NextEntity]_vars

\* the request has been handled by _handle_query_constraints
QueryHandled ==
    /\ pc = "responded"
    /\ request.method = "POST"
    /\ request.path = "/query-constraints"

\* C5: a well-formed reference A::B::"c" is handed to the engine as type A::B
\* and id c, for every id c, an id with `::` in it included.
C5_WellFormedRoundTrip ==
    (QueryHandled /\ engine_calls # <<>>) =>
        \A A \in Names, B \in Names, c \in SeqsUpTo(IdChars, MaxIdLen) :
            /\ (request.body.principal.val = WellFormed(A, B, c) =>
                  /\ engine_calls[1].argv.principal_type = A \o ColonColon \o B
                  /\ engine_calls[1].argv.principal_eid = c)
            /\ (request.body.resource.val = WellFormed(A, B, c) =>
                  /\ engine_calls[1].argv.resource_type = A \o ColonColon \o B
                  /\ engine_calls[1].argv.resource_eid = c)

\* the number of places where `::` stands in s, counted left to right without
\* overlap: the number of segments less one
RECURSIVE Separators(_, _)
Separators(s, i) ==
    IF i + 1 > Len(s) THEN 0
    ELSE IF s[i] = ":" /\ s[i + 1] = ":" THEN 1 + Separators(s, i + 2)
    ELSE Separators(s, i + 1)

\* C6: a principal or resource with fewer than two `::` separators is handed
\* to the engine as (the whole string, the empty id); the request is not failed
\* for it: the engine is invoked and its run is answered 200.
C6_DegradedReference ==
    LET strings == /\ RequiredPresent(request.body)
                   /\ IsString(request.body.principal)
                   /\ IsString(request.body.resource)
                   /\ IsString(request.body.action)
    IN  (QueryHandled /\ strings) =>
        /\ Len(engine_calls) = 1
        /\ (Separators(request.body.principal.val, 1) < 2 =>
              /\ engine_calls[1].argv.principal_type = request.body.principal.val
              /\ engine_calls[1].argv.principal_eid = <<>>)
        /\ (Separators(request.body.resource.val, 1) < 2 =>
              /\ engine_calls[1].argv.resource_type = request.body.resource.val
              /\ engine_calls[1].argv.resource_eid = <<>>)
        /\ (engine_calls[1].outcome = "ran" =>
              /\ Len(responses) = 1
              /\ responses[1].status = 200)

\* C6 witness: the principal a::" has two segments and reaches the engine whole
C6_Witness ==
    /\ QueryHandled
    /\ request.body.principal.val = <<"a", ":", ":", Quote>>
    /\ Len(engine_calls) = 1
    /\ engine_calls[1].argv.principal_type = <<"a", ":", ":", Quote>>
    /\ engine_calls[1].argv.principal_eid = <<>>
    /\ responses[1].status = 200

(***************************************************************************)
(* Claims about the gateway, under Spec.                                   *)
(***************************************************************************)
\* a POST to one of the two endpoints has been handled
EndpointHandled ==
    /\ pc = "responded"
    /\ request.method = "POST"
    /\ request.path \in {"/authorize", "/query-constraints"}

\* C2: every 200 response of POST /query-constraints whose body went out has
\* the decision "UNKNOWN", whatever the engine printed; no response of that
\* endpoint carries Allow or Deny.
C2_QueryDecisionUnknown ==
    QueryHandled =>
        \A i \in 1..Len(responses) :
            /\ (responses[i].status = 200 => responses[i].body.kind \in {"query", "none"})
            /\ (responses[i].body.kind = "query" => responses[i].body.decision = "UNKNOWN")

\* C2 witness: the engine printed two residuals and the word ALLOW
C2_Witness ==
    /\ QueryHandled
    /\ engine_calls # <<>>
    /\ engine_calls[1].stdout = OutResiduals
    /\ Len(responses) = 1
    /\ responses[1].status = 200
    /\ Len(responses[1].body.residuals) = 2
    /\ responses[1].body.decision = "UNKNOWN"

\* the environment the handled request met, read back from what it left: the
\* engine's result from the recorded call, the socket from the responses
ObservedEnv ==
    Env("ok",
        IF cedar_installed THEN "ran" ELSE "missing",
        IF engine_calls # <<>> THEN engine_calls[1].exit ELSE 0,
        IF engine_calls # <<>> THEN engine_calls[1].stdout ELSE <<>>,
        IF \E i \in 1..Len(responses) : responses[i] = HeadersOnly THEN "fails" ELSE "ok")

\* C7: the same request with any other context, or none, meeting the same
\* engine result, makes the same engine call and gets the same responses.
C7_ContextNotForwarded ==
    (QueryHandled /\ request.body.kind = "object") =>
        \A c \in Contexts :
            LET other == post([request EXCEPT !.body.context = c], ObservedEnv, tmp_files)
            IN  /\ other.engine_calls = engine_calls
                /\ other.responses = responses

\* C7 witness: a request that carries a context got its residuals
C7_Witness ==
    /\ QueryHandled
    /\ request.body.context = Other(<<"c", "1">>)
    /\ Len(engine_calls) = 1
    /\ engine_calls[1].stdout = OutResiduals
    /\ Len(responses) = 1
    /\ responses[1].status = 200

\* C8 as claimed: an engine call that ends with a non-zero exit status, or that
\* cannot be made, ends in a 500, and no response with a decision or a residual
\* list is written for it.
C8_FailedRunIs500 ==
    LET failed == /\ engine_calls # <<>>
                  /\ (engine_calls[1].outcome = "missing" \/ engine_calls[1].exit # 0)
    IN  (EndpointHandled /\ failed) =>
            /\ responses # <<>>
            /\ responses[Len(responses)] = ErrorResponse(500)
            /\ \A i \in 1..Len(responses) :
                  responses[i].body.kind \notin {"authorize", "query"}

\* C8 as amended: when the executable cannot be run, the request is answered
\* with a 500 and nothing else; a run that ends, with whatever exit status, is
\* answered from its output with a 200.
C8_MissingEngineIs500 ==
    (EndpointHandled /\ engine_calls # <<>>) =>
        /\ (~cedar_installed => responses = <<ErrorResponse(500)>>)
        /\ (cedar_installed =>
              /\ engine_calls[1].outcome = "ran"
              /\ responses # <<>>
              /\ responses[1].status = 200)

\* C8 witness: the executable is gone when /query-constraints calls it
C8_Witness ==
    /\ EndpointHandled
    /\ request.path = "/query-constraints"
    /\ ~cedar_installed
    /\ Len(engine_calls) = 1
    /\ responses = <<ErrorResponse(500)>>

\* C9 as claimed: once a POST /authorize has been handled, no request file is
\* left on disk.
C9_RequestFileRemoved ==
    (pc = "responded" /\ request.method = "POST" /\ request.path = "/authorize") =>
        tmp_files = {}

\* C10 as claimed: a body that is not JSON, JSON without principal, action or
\* resource, or an engine call that raises, is answered with a 500, and the
\* server goes on serving.
C10_BadRequestIs500 ==
    LET bad == \/ request.body.kind \in {"undecodable", "malformed"}
               \/ ~RequiredPresent(request.body)
               \/ (engine_calls # <<>> /\ engine_calls[1].outcome = "missing")
    IN  (EndpointHandled /\ bad) =>
            /\ responses = <<ErrorResponse(500)>>
            /\ server = "serving"

\* C11: a GET /health that has been read is answered with the one response
\* 200 {"status": "ok"}, with no engine call and the request files on disk as
\* they were, whether or not the engine can be run and whatever was handled
\* before.
C11_HealthAlwaysOk ==
    [][(pc = "received" /\ request.method = "GET" /\ request.path = "/health") =>
          (/\ pc' = "responded"
           /\ responses' = <<Response(200, [kind |-> "health", status |-> "ok"])>>
           /\ engine_calls' = <<>>
           /\ tmp_files' = tmp_files)]_vars

\* C11 witness: the health check is answered while the executable is gone and
\* a request file of an earlier request is still on disk
C11_Witness ==
    /\ pc = "responded"
    /\ request.method = "GET"
    /\ request.path = "/health"
    /\ ~cedar_installed
    /\ tmp_files # {}
    /\ engine_calls = <<>>
    /\ responses = <<Response(200, [kind |-> "health", status |-> "ok"])>>

\* C14: the server passes from starting to serving only when the executable is
\* there and `cedar --version` succeeded; when either fails the process exits,
\* stays exited, and no request is read, handed to the engine or answered in a
\* state where the server is not serving.
C14_ServesOnlyAfterCheck ==
    [][/\ ((server' = "serving" /\ server # "serving") =>
              (server = "starting" /\ cedar_installed /\ version_ok))
       /\ ((server = "starting" /\ ~(cedar_installed /\ version_ok) /\ server' # server) =>
              server' = "exited")
       /\ (server = "exited" => server' = "exited")
       /\ (server # "serving" => (pc' = "idle" /\ request' = NoRequest))
       /\ (server' # "serving" =>
              (/\ pc' = "idle"
               /\ request' = NoRequest
               /\ engine_calls' = <<>>
               /\ responses' = <<>>))]_vars

\* C14 witness: the executable is there, its version check failed, and the
\* process has exited with nothing served
C14_Witness ==
    /\ server = "exited"
    /\ cedar_installed
    /\ ~version_ok
    /\ pc = "idle"
    /\ request = NoRequest
    /\ responses = <<>>

\* C12 as claimed: a request whose method and path are none of POST /authorize,
\* POST /query-constraints and GET /health is answered with the one response
\* 404 and makes no engine call, for every body that is text, malformed and
\* empty ones included.
C12_UnknownRouteIs404 ==
    LET known == \/ (request.method = "POST"
                       /\ request.path \in {"/authorize", "/query-constraints"})
                 \/ (request.method = "GET" /\ request.path = "/health")
    IN  (pc = "responded" /\ ~known /\ request.body.kind # "undecodable") =>
            (/\ responses = <<ErrorResponse(404)>>
             /\ engine_calls = <<>>)

\* C19 as claimed: a POST whose body is text and whose client reads what is
\* written gets exactly one response, a 200, a 404 or a 500, for every body and
\* every engine outcome; nothing follows a 200.
C19_ExactlyOneResponse ==
    (/\ pc = "responded"
     /\ request.method = "POST"
     /\ request.body.kind # "undecodable"
     /\ \A i \in 1..Len(responses) : responses[i] # HeadersOnly) =>
        (/\ Len(responses) = 1
         /\ responses[1].status \in {200, 404, 500})

\* the index where the last `::` of s stands, the separators counted left to
\* right without overlap; 0 when there is none
RECURSIVE LastSeparator(_, _)
LastSeparator(s, i) ==
    IF i + 1 > Len(s) THEN 0
    ELSE IF s[i] = ":" /\ s[i + 1] = ":"
    THEN LET later == LastSeparator(s, i + 2) IN IF later = 0 THEN i ELSE later
    ELSE LastSeparator(s, i + 1)

\* s without one leading quote, if it has one, and then without one trailing
\* quote, if it has one
OneQuoteOff(s) ==
    LET a == IF s # <<>> /\ s[1] = Quote THEN Tail(s) ELSE s
    IN  IF a # <<>> /\ a[Len(a)] = Quote THEN SubSeq(a, 1, Len(a) - 1) ELSE a

\* C18 as claimed: a principal or resource with at least three segments reaches
\* the engine as the text before its last `::` and the text after it less at
\* most one leading and one trailing quote; quotes further in are kept.
C18_OneQuotePairRemoved ==
    (QueryHandled /\ engine_calls # <<>>) =>
        LET p == request.body.principal.val
            r == request.body.resource.val
            argv == engine_calls[1].argv
        IN  /\ (Separators(p, 1) >= 2 =>
                  (/\ argv.principal_type = SubSeq(p, 1, LastSeparator(p, 1) - 1)
                   /\ argv.principal_eid =
                          OneQuoteOff(SubSeq(p, LastSeparator(p, 1) + 2, Len(p)))))
            /\ (Separators(r, 1) >= 2 =>
                  (/\ argv.resource_type = SubSeq(r, 1, LastSeparator(r, 1) - 1)
                   /\ argv.resource_eid =
                          OneQuoteOff(SubSeq(r, LastSeparator(r, 1) + 2, Len(r)))))

(***************************************************************************)
(* The residual scan said without the loop: the lines of the output by     *)
(* their kind, the marker lines by their order, and the block of a marker  *)
(* as a range of lines.                                                    *)
(***************************************************************************)
\* after leading whitespace the line begins with @id(
MarkerLine(l) ==
    \E k \in 0..Len(l) :
        /\ \A j \in 1..k : l[j] \in Whitespace
        /\ k + Len(IdMarker) <= Len(l)
        /\ \A j \in 1..Len(IdMarker) : l[k + j] = IdMarker[j]

\* the line is empty or whitespace, or begins with --- after leading whitespace
IdleLine(l) ==
    \/ \A j \in 1..Len(l) : l[j] \in Whitespace
    \/ \E k \in 0..Len(l) :
          /\ \A j \in 1..k : l[j] \in Whitespace
          /\ k + 3 <= Len(l)
          /\ l[k + 1] = "-" /\ l[k + 2] = "-" /\ l[k + 3] = "-"

\* the last character of the line that is not whitespace is `;`
TerminatedLine(l) ==
    \E k \in 1..Len(l) : l[k] = ";" /\ \A j \in (k + 1)..Len(l) : l[j] \in Whitespace

\* the indices of the marker lines of the output, and the k-th of them
Markers == {i \in 1..Len(scan_lines) : MarkerLine(scan_lines[i])}
KthMarker(k) == CHOOSE i \in Markers : Cardinality({j \in Markers : j <= i}) = k

\* the last line of m..e that is neither blank nor a separator
LastKept(m, e) ==
    CHOOSE i \in m..e : ~IdleLine(scan_lines[i])
                        /\ \A j \in (i + 1)..e : IdleLine(scan_lines[j])

\* the block of the marker at line m ends before line j: the output ends, the
\* next marker stands there, or a blank or separator line stands there and
\* the last line kept before it is terminated
EndsBefore(m, j) ==
    \/ j = Len(scan_lines) + 1
    \/ MarkerLine(scan_lines[j])
    \/ (IdleLine(scan_lines[j]) /\ TerminatedLine(scan_lines[LastKept(m, j - 1)]))

BlockEnd(m) ==
    CHOOSE j \in (m + 1)..(Len(scan_lines) + 1) :
        EndsBefore(m, j) /\ \A h \in (m + 1)..(j - 1) : ~EndsBefore(m, h)

\* the lines of i..e that are neither blank nor separators, in order
RECURSIVE KeptLines(_, _)
KeptLines(i, e) ==
    IF i > e THEN <<>>
    ELSE (IF IdleLine(scan_lines[i]) THEN <<>> ELSE <<scan_lines[i]>>)
         \o KeptLines(i + 1, e)

\* sample lines by name
LineA == IdMarker \o <<"a", ")">>
LineB == <<" ">> \o IdMarker \o <<"b", ")">>
LineC == IdMarker \o <<"c", ")", ";">>

\* C13: the residual list has one entry per marker line, in the order of the
\* marker lines: while the loop runs the entries are the markers read less the
\* block still open, at the end there are as many as markers, and the k-th
\* entry begins with the k-th marker line, whole.
C13_OneResidualPerMarker ==
    (scan_pc \in {"loop", "done"}) =>
        LET read == {i \in Markers : i < scan_pos}
            open == IF scan_pc = "loop" /\ current_residual # <<>> THEN 1 ELSE 0
        IN  /\ Len(residuals) = Cardinality(read) - open
            /\ (scan_pc = "done" => Len(residuals) = Cardinality(Markers))
            /\ \A k \in 1..Len(residuals) :
                  LET m == scan_lines[KthMarker(k)]
                  IN  /\ Len(residuals[k]) >= Len(m)
                      /\ SubSeq(residuals[k], 1, Len(m)) = m
                      /\ (Len(residuals[k]) > Len(m) => residuals[k][Len(m) + 1] = "\n")

\* C13 witness: three markers, the second met inside the open block of the first
C13_Witness ==
    /\ scan_pc = "done"
    /\ scan_lines = <<LineA, LineB, <<"x">>, LineC>>
    /\ residuals = <<LineA, LineB \o <<"\n", "x">>, LineC>>

\* the line the loop reads next, when there is one
Reading == scan_pc = "loop" /\ scan_pos <= Len(scan_lines)
NextLine == scan_lines[scan_pos]

\* C15: a blank or separator line read while in a block flushes the block and
\* leaves the machine outside exactly when the last accumulated line, trimmed,
\* ends with `;`; otherwise result, accumulator and flag stay as they are.
C15_BlankFlushesIffTerminated ==
    [][(Reading /\ in_residual /\ IdleLine(NextLine)) =>
          IF current_residual # <<>>
             /\ TerminatedLine(current_residual[Len(current_residual)])
          THEN /\ residuals' = Append(residuals, Join(current_residual, Newline))
               /\ current_residual' = <<>>
               /\ in_residual' = FALSE
          ELSE /\ residuals' = residuals
               /\ current_residual' = current_residual
               /\ in_residual' = TRUE]_vars

\* C15 witness: a blank line left the open block as it was, and after a
\* terminated line a separator flushed it
C15_Witness ==
    /\ scan_pc = "loop"
    /\ scan_lines = <<LineA, <<" ">>, <<"y", ";">>, Dashes \o <<"-">>>>
    /\ scan_pos = 5
    /\ residuals = <<LineA \o <<"\n", "y", ";">>>>
    /\ current_residual = <<>>
    /\ ~in_residual

\* C16: a marker line leaves the machine in a block whose accumulator is that
\* line alone; read outside a block it flushes nothing, read inside one it
\* first appends the open block to the result, terminated or not.
C16_MarkerStartsBlock ==
    [][(Reading /\ MarkerLine(NextLine)) =>
          (/\ in_residual' = TRUE
           /\ current_residual' = <<NextLine>>
           /\ residuals' = IF in_residual
                           THEN Append(residuals, Join(current_residual, Newline))
                           ELSE residuals)]_vars

\* C16 witness: the second marker flushed an open block whose last line has no `;`
C16_Witness ==
    /\ scan_pc = "loop"
    /\ scan_lines = <<LineA, <<"x">>, LineB>>
    /\ scan_pos = 4
    /\ residuals = <<LineA \o <<"\n", "x">>>>
    /\ current_residual = <<LineB>>
    /\ in_residual

\* C17: at the end of the scan the k-th residual is the k-th marker line and
\* the lines of its block that are neither blank nor separators, as read, in
\* order, joined by line breaks; a line outside every block is in no residual.
C17_ResidualIsItsBlock ==
    (scan_pc = "done") =>
        /\ Len(residuals) = Cardinality(Markers)
        /\ \A k \in 1..Len(residuals) :
              LET m == KthMarker(k)
              IN  residuals[k] = Join(KeptLines(m, BlockEnd(m) - 1), Newline)

\* C17 witness: a line with a trailing blank is kept as read, the blank line
\* after it ends the block, and the line read outside is dropped
C17_Witness ==
    /\ scan_pc = "done"
    /\ scan_lines = <<LineA, <<"z", ";", " ">>, <<>>, <<"x">>>>
    /\ residuals = <<LineA \o <<"\n", "z", ";", " ">>>>

\* C20: the flag is set exactly when the accumulator is not empty, a non-empty
\* accumulator begins with a marker line, and every residual of the result is
\* non-empty and begins with a marker line.
C20_FlagIffAccumulator ==
    (scan_pc \in {"loop", "done"}) =>
        /\ (in_residual <=> current_residual # <<>>)
        /\ (current_residual # <<>> => MarkerLine(current_residual[1]))
        /\ \A k \in 1..Len(residuals) :
              /\ residuals[k] # <<>>
              /\ MarkerLine(Split(residuals[k], Newline)[1])

\* C20 witness: one block flushed by a blank line, the next one open with two lines
C20_Witness ==
    /\ scan_pc = "loop"
    /\ scan_lines = <<LineC, <<>>, LineA, <<"x">>>>
    /\ scan_pos = 5
    /\ residuals = <<LineC>>
    /\ current_residual = <<LineA, <<"x">>>>
    /\ in_residual

=============================================================================
